---- MODULE Spec2Model ----
(***************************************************************************)
(* CheckBeer: native signature-bypass probes (src/include/SignatureCheck.hpp) *)
(* over the JNI helper layer (src/include/JNIHelper.hpp).                    *)
(*                                                                           *)
(* The managed runtime and the filesystem are the environment: `rt` holds    *)
(* what the reflective calls observe, `fs` the stat/chmod view of the APK    *)
(* files.  Strings are sequences of one-character strings so that            *)
(* std::string::find, length and substr are computed, not assumed.  Java     *)
(* references are records with a `null` flag.  JNI call sites are named by   *)
(* their line number in SignatureCheck.hpp.                                  *)
(*                                                                           *)
(* `returned` lists the values of the calls of checkSignatureBypass that     *)
(* have returned.  `jni` records the last call of a jni:: helper made on its *)
(* own (SpecJni): the env-> functions it ran, the local references it made,  *)
(* and how it left.                                                          *)
(***************************************************************************)
EXTENDS Integers, Sequences, FiniteSets, TLC

VARIABLES rt, fs, fs0, pending, pc, suspicious, results, trace, retval, log,
          returned, jni

vars == <<rt, fs, fs0, pending, pc, suspicious, results, trace, retval, log,
          returned, jni>>

(* ------------------------------ bounds --------------------------------- *)

\* how many independent facts of the environment deviate from a stock device
MaxForged == 1

\* largest number of declared fields of the CREATOR class
MaxFields == 1

\* how many times in a row checkSignatureBypass is called
MaxCalls == 2

\* how many arguments a variadic jni:: helper is called with at most
MaxArgs == 1

\* how many jni:: helper calls native code makes in a row
MaxHelperCalls == 2

(* ------------------------- string constants ---------------------------- *)

\* "android.content.pm.PackageInfo$" (SignatureCheck.hpp:40,106)
creatorPrefix ==
    <<"a","n","d","r","o","i","d",".","c","o","n","t","e","n","t",".","p","m",".","P","a","c","k","a","g","e","I","n","f","o","$">>

\* "android.content.pm.PackageInfo" (environment value)
PackageInfoName ==
    <<"a","n","d","r","o","i","d",".","c","o","n","t","e","n","t",".","p","m",".","P","a","c","k","a","g","e","I","n","f","o">>

\* "com.evil.Creator" (environment value)
EvilCreatorName ==
    <<"c","o","m",".","e","v","i","l",".","C","r","e","a","t","o","r">>

\* "android.content.pm.IPackageManager$Stub$Proxy" (SignatureCheck.hpp:151)
expectedPMName ==
    <<"a","n","d","r","o","i","d",".","c","o","n","t","e","n","t",".","p","m",".","I","P","a","c","k","a","g","e","M","a","n","a","g","e","r","$","S","t","u","b","$","P","r","o","x","y">>

\* "com.evil.PMProxy" (environment value)
EvilPMName ==
    <<"c","o","m",".","e","v","i","l",".","P","M","P","r","o","x","y">>

\* "androidx.core.app.CoreComponentFactory" (SignatureCheck.hpp:223)
originalAppComponentFactory ==
    <<"a","n","d","r","o","i","d","x",".","c","o","r","e",".","a","p","p",".","C","o","r","e","C","o","m","p","o","n","e","n","t","F","a","c","t","o","r","y">>

\* "com.evil.Factory" (environment value)
EvilFactoryName ==
    <<"c","o","m",".","e","v","i","l",".","F","a","c","t","o","r","y">>

\* "/data/app/" (SignatureCheck.hpp:339)
dataAppPrefix ==
    <<"/","d","a","t","a","/","a","p","p","/">>

\* "/base.apk" (SignatureCheck.hpp:355)
baseApkSuffix ==
    <<"/","b","a","s","e",".","a","p","k">>

\* "java.lang.BootClassLoader" (environment value)
BootClassLoaderName ==
    <<"j","a","v","a",".","l","a","n","g",".","B","o","o","t","C","l","a","s","s","L","o","a","d","e","r">>

\* "dalvik.system.PathClassLoader" (environment value)
PathClassLoaderName ==
    <<"d","a","l","v","i","k",".","s","y","s","t","e","m",".","P","a","t","h","C","l","a","s","s","L","o","a","d","e","r">>

\* "android.content.pm.PackageInfo$1" (SignatureCheck.hpp:28)
expectedCreatorName ==
    creatorPrefix \o <<"1">>

\* the name of another anonymous class of PackageInfo
OtherInnerName ==
    creatorPrefix \o <<"2">>

\* Object.toString() of the stock CREATOR: class name, "@", hash
StockCreatorString ==
    expectedCreatorName \o <<"@","1">>

\* a factory name that merely begins with the expected one
LongerFactoryName ==
    originalAppComponentFactory \o <<"2">>

\* a proxy class name that merely begins with the expected one
LongerPMName ==
    expectedPMName \o <<"2">>

GoodPath ==
    dataAppPrefix \o <<"x">> \o baseApkSuffix

OtherGoodPath ==
    dataAppPrefix \o <<"y">> \o baseApkSuffix

BadPrefixPath ==
    <<"/","x">> \o baseApkSuffix

BadSuffixPath ==
    dataAppPrefix \o <<"x","/","b",".","a","p","k">>

ShortPath ==
    <<"/","b",".","a","p","k">>

EmptyString ==
    <<>>

(* --------------------------- Java references --------------------------- *)

NullRef ==
    [null |-> TRUE]

\* a non-null reference whose content no probe looks at (a jclass, the context)
SomeRef ==
    [null |-> FALSE]

JStr(s) ==
    [null |-> FALSE, chars |-> s]

(* ------------------------------ std::string ---------------------------- *)

npos ==
    -1

\* std::string::find(sub): index (from 0) of the first occurrence, or npos
Find(s, sub) ==
    LET hits == {i \in 0..(Len(s) - Len(sub)) : SubSeq(s, i + 1, i + Len(sub)) = sub}
    IN  IF hits = {} THEN npos ELSE CHOOSE i \in hits : \A j \in hits : i <= j

\* std::string::substr(pos): the characters from index pos (from 0) to the end
Substr(s, pos) ==
    SubSeq(s, pos + 1, Len(s))

(* ------------------------------ JNI helpers ---------------------------- *)

\* JNI_CHECK_EXCEPTION: when an exception is pending, clear it and throw
JNI_CHECK_EXCEPTION_noClear(pend) ==
    [thrown |-> pend, pending |-> pend]

JNI_CHECK_EXCEPTION(pend) ==
    [thrown |-> pend, pending |-> FALSE]

\* env->GetStringUTFChars on a non-null string: the modified UTF-8 bytes.
\* (ART aborts the process when the buffer cannot be allocated, it never
\* returns NULL, so `chars` is the content whenever the call returns.)
GetStringUTFChars(jstr) ==
    jstr.chars

JStringToString(jstr) ==
    IF jstr.null THEN EmptyString ELSE GetStringUTFChars(jstr)

\* what a JNI function does with a null object argument: the behaviour is
\* undefined; ART's CHECK_NON_NULL_ARGUMENT aborts the process, another
\* runtime may leave a NullPointerException pending.
UBOutcomes ==
    {"abort", "throw"}

\* the tail of every jni:: helper: the JNI operation, then JNI_CHECK_EXCEPTION
Checked(raised) ==
    LET c == JNI_CHECK_EXCEPTION(raised)
    IN  [kind |-> IF c.thrown THEN "throw" ELSE "ok", pending |-> c.pending]

\* jni::CallMethod / jni::GetField on receiver recv at call site `site`:
\* GetObjectClass(recv), the ID lookup, the operation, each followed by
\* JNI_CHECK_EXCEPTION.  (jni::CallStaticMethod / jni::GetStaticField: the
\* receiver is the class found by FindClass, never null.)
HelperCall(site, recv, r, pend, ub) ==
    IF recv.null
    THEN IF ub = "abort" THEN [kind |-> "abort", pending |-> pend] ELSE Checked(TRUE)
    ELSE Checked(pend \/ site \in r.throwing)

\* a direct env-> call (NewStringUTF): a failure stays pending, nothing is thrown
RawCall(site, r, pend) ==
    [kind |-> "ok", pending |-> pend \/ site \in r.throwing]

C(site, recv) ==
    [site |-> site, recv |-> recv, raw |-> FALSE]

Raw(site) ==
    [site |-> site, recv |-> SomeRef, raw |-> TRUE]

\* consecutive statements of a try block: the first throw or abort ends them
RECURSIVE RunCalls(_, _, _, _)
RunCalls(calls, r, pend, ub) ==
    IF calls = <<>>
    THEN [kind |-> "ok", pending |-> pend]
    ELSE LET c == Head(calls)
             o == IF c.raw THEN RawCall(c.site, r, pend)
                           ELSE HelperCall(c.site, c.recv, r, pend, ub)
         IN  IF o.kind = "ok" THEN RunCalls(Tail(calls), r, o.pending, ub) ELSE o

\* what a probe hands back to checkSignatureBypass
Ret(susp, pend, f, msgs) ==
    [kind |-> "ret", suspicious |-> susp, pending |-> pend, fs |-> f, log |-> msgs]

\* the process died inside a JNI call: the probe never returns
Aborted(pend, f, msgs) ==
    [kind |-> "abort", suspicious |-> FALSE, pending |-> pend, fs |-> f, log |-> msgs]

(* ------------------------------ checkCreator --------------------------- *)

\* the value every catch block of a probe assigns to `suspicious`
CaughtSuspicious_failOpen ==
    FALSE

CaughtSuspicious ==
    TRUE

\* lines 40-50: the prefix test, then the exact comparison
CreatorNameSuspicious_prefixOnly(currentCreatorName) ==
    Find(currentCreatorName, creatorPrefix) # 0

CreatorNameSuspicious(currentCreatorName) ==
    LET afterPrefixTest == Find(currentCreatorName, creatorPrefix) # 0
    IN  IF expectedCreatorName # currentCreatorName THEN TRUE ELSE afterPrefixTest

\* lines 26-58; without the catch block of lines 52-55 the JNIException
\* would leave the probe
checkCreator_noCatch(r, f, pend, ub) ==
    LET o == RunCalls(<<C(33, SomeRef), C(34, r.creator), C(35, SomeRef)>>, r, pend, ub)
    IN  IF o.kind = "abort" THEN Aborted(o.pending, f, {})
        ELSE IF o.kind = "throw"
        THEN [kind |-> "throw", suspicious |-> FALSE, pending |-> o.pending,
              fs |-> f, log |-> {}]
        ELSE Ret(CreatorNameSuspicious(JStringToString(r.creator.className)),
                 o.pending, f, {})

checkCreator(r, f, pend, ub) ==
    LET o == RunCalls(<<C(33, SomeRef), C(34, r.creator), C(35, SomeRef)>>, r, pend, ub)
    IN  IF o.kind = "abort" THEN Aborted(o.pending, f, {})
        ELSE IF o.kind = "throw"
        THEN Ret(CaughtSuspicious, o.pending, f, {"Error while checking creator"})
        ELSE Ret(CreatorNameSuspicious(JStringToString(r.creator.className)),
                 o.pending, f, {})

(* ------------------------------- checkField ---------------------------- *)

\* line 72
FieldCountSuspicious_offByOne(fieldCount) ==
    fieldCount > 1

FieldCountSuspicious(fieldCount) ==
    fieldCount > 0

\* lines 76-82: one GetObjectArrayElement and one getName per declared field
RECURSIVE FieldLoopCalls(_)
FieldLoopCalls(n) ==
    IF n = 0 THEN <<>> ELSE <<Raw(77), C(78, SomeRef)>> \o FieldLoopCalls(n - 1)

checkField(r, f, pend, ub) ==
    LET o == RunCalls(<<C(65, SomeRef), C(66, r.creator), C(67, SomeRef)>>, r, pend, ub)
    IN  IF o.kind = "abort" THEN Aborted(o.pending, f, {})
        ELSE IF o.kind = "throw"
        THEN Ret(CaughtSuspicious, o.pending, f, {"Error while checking fields"})
        ELSE LET fieldCount == r.creator.fieldCount
             IN  IF FieldCountSuspicious(fieldCount)
                 THEN LET l == RunCalls(FieldLoopCalls(fieldCount), r, o.pending, ub)
                      IN  IF l.kind = "abort"
                          THEN Aborted(l.pending, f, {"Found unexpected fields"})
                          ELSE IF l.kind = "throw"
                          THEN Ret(CaughtSuspicious, l.pending, f,
                                   {"Found unexpected fields", "Error while checking fields"})
                          ELSE Ret(TRUE, l.pending, f, {"Found unexpected fields"})
                 ELSE Ret(FALSE, o.pending, f, {"No suspicious fields found"})

(* ------------------------------ checkCreators -------------------------- *)

\* lines 105-112
CreatorStringSuspicious(creatorString) ==
    IF creatorString # EmptyString
    THEN Find(creatorString, creatorPrefix) # 0
    ELSE FALSE

\* lines 119-126 and 134: the two loaders are compared by the names of their classes
SameClassLoader_identity(creatorClassloader, sysClassloader) ==
    sysClassloader.id = creatorClassloader.id

SameClassLoader(creatorClassloader, sysClassloader) ==
    JStringToString(sysClassloader.className) = JStringToString(creatorClassloader.className)

\* lines 131-139
CompareLoaders(creatorClassloader, sysClassloader) ==
    IF creatorClassloader.null \/ sysClassloader.null
    THEN [suspicious |-> TRUE, msg |-> "One of the class loaders is null"]
    ELSE IF SameClassLoader(creatorClassloader, sysClassloader)
    THEN [suspicious |-> TRUE, msg |-> "Class loaders are same - suspicious"]
    ELSE [suspicious |-> FALSE, msg |-> "Class loaders are different - good"]

checkCreators(r, f, pend, ub) ==
    LET o == RunCalls(<<C(100, SomeRef), C(102, r.creator)>>, r, pend, ub)
    IN  IF o.kind = "abort" THEN Aborted(o.pending, f, {})
        ELSE IF o.kind = "throw"
        THEN Ret(CaughtSuspicious, o.pending, f, {"Error while checking creator3"})
        ELSE LET s1   == CreatorStringSuspicious(JStringToString(r.creator.toString))
                 m1   == IF s1 THEN {"Creator object is suspicious"} ELSE {}
                 o2   == RunCalls(<<C(114, r.creator), C(115, SomeRef), C(117, SomeRef),
                                    C(119, r.creatorClassloader), C(120, r.sysClassloader),
                                    C(122, SomeRef), C(123, SomeRef)>>, r, o.pending, ub)
             IN  IF o2.kind = "abort" THEN Aborted(o2.pending, f, m1)
                 ELSE IF o2.kind = "throw"
                 THEN Ret(CaughtSuspicious, o2.pending, f,
                          m1 \cup {"Error while checking creator3"})
                 ELSE LET cmp == CompareLoaders(r.creatorClassloader, r.sysClassloader)
                      IN  Ret(IF cmp.suspicious THEN TRUE ELSE s1, o2.pending, f,
                              m1 \cup {cmp.msg})

(* ------------------------------ checkPMProxy --------------------------- *)

\* line 173
PMNameSuspicious_prefix(currentPMName) ==
    Find(currentPMName, expectedPMName) # 0

PMNameSuspicious(currentPMName) ==
    expectedPMName # currentPMName

checkPMProxy(r, f, pend, ub) ==
    LET o == RunCalls(<<C(155, SomeRef), C(157, SomeRef), Raw(158), C(159, SomeRef),
                        C(161, SomeRef), C(163, SomeRef), C(165, r.mPM), C(166, SomeRef)>>,
                      r, pend, ub)
    IN  IF o.kind = "abort" THEN Aborted(o.pending, f, {})
        ELSE IF o.kind = "throw"
        THEN Ret(CaughtSuspicious, o.pending, f, {"Error while checking PM proxy"})
        ELSE Ret(PMNameSuspicious(JStringToString(r.mPM.className)), o.pending, f, {})

(* ------------------------- checkAppComponentFactory -------------------- *)

\* lines 188-196: any exception is swallowed and nullptr returned
getApplication_rethrows(r, pend, ub) ==
    LET o == RunCalls(<<C(190, SomeRef), C(191, r.activityThread)>>, r, pend, ub)
    IN  IF o.kind = "abort" THEN [kind |-> "abort", app |-> NullRef, pending |-> o.pending]
        ELSE IF o.kind = "throw"
        THEN [kind |-> "throw", app |-> NullRef, pending |-> o.pending]
        ELSE [kind |-> "ret", app |-> r.application, pending |-> o.pending]

getApplication(r, pend, ub) ==
    LET o == RunCalls(<<C(190, SomeRef), C(191, r.activityThread)>>, r, pend, ub)
    IN  IF o.kind = "abort" THEN [kind |-> "abort", app |-> NullRef, pending |-> o.pending]
        ELSE IF o.kind = "throw"
        THEN [kind |-> "ret", app |-> NullRef, pending |-> o.pending]
        ELSE [kind |-> "ret", app |-> r.application, pending |-> o.pending]

\* line 237
FactorySuspicious_prefix(appComponentFactory) ==
    Find(appComponentFactory, originalAppComponentFactory) # 0

FactorySuspicious(appComponentFactory) ==
    appComponentFactory # originalAppComponentFactory

\* lines 221-254; the call of getApplication (line 227) is inside the try block
checkAppComponentFactory(r, f, pend, ub) ==
    LET g == getApplication(r, pend, ub)
    IN  IF g.kind = "abort" THEN Aborted(g.pending, f, {})
        ELSE IF g.kind = "throw"
        THEN Ret(CaughtSuspicious, g.pending, f,
                 {"Error while checking AppComponentFactory"})
        ELSE IF g.app.null THEN Ret(FALSE, g.pending, f, {})
        ELSE LET o == RunCalls(<<C(229, g.app), C(231, SomeRef)>>, r, g.pending, ub)
             IN  IF o.kind = "abort" THEN Aborted(o.pending, f, {})
                 ELSE IF o.kind = "throw"
                 THEN Ret(CaughtSuspicious, o.pending, f,
                          {"Error while checking AppComponentFactory"})
                 ELSE IF r.appComponentFactory.null
                 THEN Ret(FALSE, o.pending, f, {"AppComponentFactory is null"})
                 ELSE IF FactorySuspicious(JStringToString(r.appComponentFactory))
                 THEN Ret(TRUE, o.pending, f,
                          {"Detected AppComponentFactory", "AppComponentFactory mismatch"})
                 ELSE Ret(FALSE, o.pending, f,
                          {"Detected AppComponentFactory",
                           "AppComponentFactory verification passed"})

(* ------------------------------ checkApkPaths -------------------------- *)

\* 0644, the mode an installed APK is expected to have (line 372)
ExpectedMode ==
    420

\* 0777, the mode the probe tries to set (line 387)
ProbeMode ==
    511

\* the permission mask 0777 of `st.st_mode & 0777` (line 372), as a modulus
PermModulus ==
    512

\* the system uid (line 373)
SystemUid ==
    1000

\* the length of "/base.apk" tested at line 355
SuffixLength ==
    9

Absent ==
    [exists |-> FALSE]

\* stat(2): succeeds exactly for an existing file
stat(f, path) ==
    [ok |-> f[path].exists, st |-> f[path]]

\* chmod(2): replaces the twelve mode bits when the kernel permits it
chmod(f, path, mode) ==
    IF f[path].exists /\ f[path].chmodPermitted
    THEN [ok |-> TRUE,
          fs |-> [f EXCEPT ![path].st_mode = (@ \div 4096) * 4096 + mode]]
    ELSE [ok |-> FALSE, fs |-> f]

\* lines 256-267: any exception is swallowed and "" returned
getApkPath(r, pend, ub) ==
    LET o == RunCalls(<<C(258, SomeRef), C(260, SomeRef)>>, r, pend, ub)
    IN  IF o.kind = "abort" THEN [kind |-> "abort", path |-> EmptyString, pending |-> o.pending]
        ELSE IF o.kind = "throw"
        THEN [kind |-> "ret", path |-> EmptyString, pending |-> o.pending]
        ELSE [kind |-> "ret", path |-> JStringToString(r.paths.sourceDir),
              pending |-> o.pending]

\* lines 316-319
PathList(r, nativeApkPath) ==
    <<JStringToString(r.paths.resourcePath), JStringToString(r.paths.codePath),
      JStringToString(r.paths.sourceDir), JStringToString(r.paths.publicSourceDir),
      JStringToString(r.paths.packageInfoSourceDir)>>
    \o (IF nativeApkPath # EmptyString THEN <<nativeApkPath>> ELSE <<>>)

\* lines 321-329: the loop stops at the first mismatch with paths[0]
AllPathsSame(paths) ==
    \A i \in 2..Len(paths) : paths[i] = paths[1]

\* lines 337-345
AllStartWithDataApp(paths) ==
    \A i \in 1..Len(paths) : Find(paths[i], dataAppPrefix) = 0

\* lines 353-361
AllEndWithBaseApk(paths) ==
    \A i \in 1..Len(paths) :
        ~(Len(paths[i]) < SuffixLength
          \/ Substr(paths[i], Len(paths[i]) - SuffixLength) # baseApkSuffix)

\* line 391: after a successful chmod(path, 0777) the mode is set to 0644
RestorePermissions_skipped(f, path) ==
    f

RestorePermissions(f, path) ==
    chmod(f, path, ExpectedMode).fs

\* lines 387-390: a path whose mode the process could change is suspicious
ChmodSuspicious_ignored(canChangePermissions) ==
    FALSE

ChmodSuspicious(canChangePermissions) ==
    canChangePermissions

\* lines 370-398: the body of the stat loop for one path
InspectPath_noOwnerCheck(path, f) ==
    LET s == stat(f, path)
    IN  IF s.ok
        THEN LET correctPermissions == (s.st.st_mode % PermModulus) = ExpectedMode
                 c == chmod(f, path, ProbeMode)
             IN  IF c.ok
                 THEN [fs |-> RestorePermissions(c.fs, path),
                       suspicious |-> ChmodSuspicious(c.ok) \/ ~correctPermissions,
                       log |-> {"permissions could be changed - suspicious"}]
                 ELSE [fs |-> c.fs, suspicious |-> ~correctPermissions,
                       log |-> {"permissions check passed"}]
        ELSE [fs |-> f, suspicious |-> TRUE, log |-> {"Error accessing path"}]

InspectPath(path, f) ==
    LET s == stat(f, path)
    IN  IF s.ok
        THEN LET correctPermissions == (s.st.st_mode % PermModulus) = ExpectedMode
                 correctOwner       == s.st.st_uid = SystemUid
                 c == chmod(f, path, ProbeMode)
             IN  IF c.ok
                 THEN [fs |-> RestorePermissions(c.fs, path),
                       suspicious |-> ChmodSuspicious(c.ok) \/ ~correctPermissions
                                      \/ ~correctOwner,
                       log |-> {"permissions could be changed - suspicious"}]
                 ELSE [fs |-> c.fs, suspicious |-> ~correctPermissions \/ ~correctOwner,
                       log |-> {"permissions check passed"}]
        ELSE [fs |-> f, suspicious |-> TRUE, log |-> {"Error accessing path"}]

\* lines 369-399: every entry of the list is inspected, in order
RECURSIVE StatLoop(_, _)
StatLoop(paths, f) ==
    IF paths = <<>>
    THEN [fs |-> f, suspicious |-> FALSE, log |-> {}]
    ELSE LET h == InspectPath(Head(paths), f)
             t == StatLoop(Tail(paths), h.fs)
         IN  [fs |-> t.fs, suspicious |-> h.suspicious \/ t.suspicious,
              log |-> h.log \cup t.log]

checkApkPaths(r, f, pend, ub) ==
    LET o == RunCalls(<<C(274, SomeRef), C(277, SomeRef), C(280, SomeRef), C(282, SomeRef),
                        C(285, SomeRef), C(288, SomeRef), C(289, SomeRef), C(291, SomeRef),
                        C(299, SomeRef)>>, r, pend, ub)
    IN  IF o.kind = "abort" THEN Aborted(o.pending, f, {})
        ELSE IF o.kind = "throw"
        THEN Ret(CaughtSuspicious, o.pending, f, {"Error while checking APK paths"})
        ELSE LET n == getApkPath(r, o.pending, ub)
             IN  IF n.kind = "abort" THEN Aborted(n.pending, f, {})
                 ELSE LET paths == PathList(r, n.path)
                          s1 == ~AllPathsSame(paths)
                          s2 == ~AllStartWithDataApp(paths)
                          s3 == ~AllEndWithBaseApk(paths)
                          l  == StatLoop(paths, f)
                      IN  Ret(s1 \/ s2 \/ s3 \/ l.suspicious, n.pending, l.fs, l.log)

(* --------------------------- checkSignatureBypass ---------------------- *)

\* lines 414-419, in source order
ProbeOrder ==
    <<"checkCreator", "checkField", "checkCreators", "checkPMProxy",
      "checkAppComponentFactory", "checkApkPaths">>

Probes ==
    {ProbeOrder[i] : i \in 1..Len(ProbeOrder)}

RunProbe(p, r, f, pend, ub) ==
    CASE p = "checkCreator"             -> checkCreator(r, f, pend, ub)
      [] p = "checkField"               -> checkField(r, f, pend, ub)
      [] p = "checkCreators"            -> checkCreators(r, f, pend, ub)
      [] p = "checkPMProxy"             -> checkPMProxy(r, f, pend, ub)
      [] p = "checkAppComponentFactory" -> checkAppComponentFactory(r, f, pend, ub)
      [] p = "checkApkPaths"            -> checkApkPaths(r, f, pend, ub)

\* `suspicious |= probe(...)`
Accumulate_assign(acc, probeResult) ==
    probeResult

Accumulate(acc, probeResult) ==
    acc \/ probeResult

\* the statement executed after probe p returned: `|=` evaluates its right-hand
\* side whatever the accumulated value is
IndexOf(p) ==
    CHOOSE i \in 1..Len(ProbeOrder) : ProbeOrder[i] = p

NextStatement_shortCircuit(p, acc) ==
    IF acc \/ IndexOf(p) = Len(ProbeOrder) THEN "return" ELSE ProbeOrder[IndexOf(p) + 1]

NextStatement(p, acc) ==
    IF IndexOf(p) = Len(ProbeOrder) THEN "return" ELSE ProbeOrder[IndexOf(p) + 1]

(* ------------------------------ environment ---------------------------- *)

\* every jni:: helper call and raw env-> call of SignatureCheck.hpp, by line
Sites ==
    {33, 34, 35} \cup {65, 66, 67, 77, 78}
    \cup {100, 102, 114, 115, 117, 119, 120, 122, 123}
    \cup {155, 157, 158, 159, 161, 163, 165, 166}
    \cup {190, 191} \cup {229, 231} \cup {258, 260}
    \cup {274, 277, 280, 282, 285, 288, 289, 291, 299}

StockCreator ==
    [null |-> FALSE, className |-> JStr(expectedCreatorName),
     toString |-> JStr(StockCreatorString), fieldCount |-> 0]

ForgedCreators ==
    {NullRef} \cup
    {[null |-> FALSE, className |-> n, toString |-> s, fieldCount |-> k] :
        n \in {JStr(expectedCreatorName), JStr(OtherInnerName), JStr(PackageInfoName),
               JStr(EvilCreatorName), NullRef},
        s \in {JStr(StockCreatorString), JStr(EvilCreatorName), JStr(EmptyString), NullRef},
        k \in 0..MaxFields}

BootLoader ==
    [null |-> FALSE, id |-> 1, className |-> JStr(BootClassLoaderName)]

AppLoader ==
    [null |-> FALSE, id |-> 2, className |-> JStr(PathClassLoaderName)]

SystemLoader ==
    [null |-> FALSE, id |-> 3, className |-> JStr(PathClassLoaderName)]

StockLoaders ==
    [creator |-> BootLoader, sys |-> SystemLoader]

ForgedLoaders ==
    [creator : {NullRef, BootLoader, AppLoader, SystemLoader},
     sys     : {NullRef, BootLoader, AppLoader, SystemLoader}]

StockPM ==
    [null |-> FALSE, className |-> JStr(expectedPMName)]

ForgedPMs ==
    {NullRef} \cup
    {[null |-> FALSE, className |-> n] :
        n \in {JStr(EvilPMName), JStr(LongerPMName), NullRef}}

StockApp ==
    [activityThread |-> SomeRef, application |-> SomeRef,
     appComponentFactory |-> JStr(originalAppComponentFactory)]

ForgedApps ==
    [activityThread : {NullRef, SomeRef}, application : {NullRef, SomeRef},
     appComponentFactory : {NullRef, JStr(originalAppComponentFactory),
                            JStr(LongerFactoryName), JStr(EvilFactoryName)}]

PathStrings ==
    {GoodPath, OtherGoodPath, BadPrefixPath, BadSuffixPath, ShortPath, EmptyString}

PathRefs ==
    {NullRef} \cup {JStr(p) : p \in PathStrings}

PathSources ==
    {"resourcePath", "codePath", "sourceDir", "publicSourceDir", "packageInfoSourceDir"}

StockPaths ==
    [s \in PathSources |-> JStr(GoodPath)]

ForgedPaths ==
    {[s \in PathSources |-> v] : v \in PathRefs}
    \cup {[StockPaths EXCEPT ![s] = v] : s \in PathSources, v \in PathRefs}

\* an installed APK: a regular file, rw-r--r--, owned by system, not ours to chmod
StockFile ==
    [exists |-> TRUE, st_mode |-> 32768 + 420, st_uid |-> 1000, chmodPermitted |-> FALSE]

StockFs ==
    [p \in PathStrings |-> IF p = EmptyString THEN Absent ELSE StockFile]

ForgedFiles ==
    {Absent} \cup
    [exists : {TRUE}, st_mode : {32768 + 420, 32768 + 384, 32768 + 511},
     st_uid : {1000, 10123}, chmodPermitted : BOOLEAN]

ForgedFss ==
    {[StockFs EXCEPT ![p] = x] : p \in {GoodPath, OtherGoodPath}, x \in ForgedFiles}

ForgedThrows ==
    {{s} : s \in Sites}

\* a stock device on which nothing is forged and no call fails
StockRuntime ==
    [creator |-> StockCreator, creatorClassloader |-> StockLoaders.creator,
     sysClassloader |-> StockLoaders.sys, mPM |-> StockPM,
     activityThread |-> StockApp.activityThread, application |-> StockApp.application,
     appComponentFactory |-> StockApp.appComponentFactory,
     paths |-> StockPaths, throwing |-> {}]

Concerns ==
    {"creator", "loaders", "pm", "app", "paths", "files", "throws"}

Pick(concern, forged, forgedValues, stockValue) ==
    IF concern \in forged THEN forgedValues ELSE {stockValue}

InitEnv ==
    \E forged \in {S \in SUBSET Concerns : Cardinality(S) <= MaxForged} :
      \E cr \in Pick("creator", forged, ForgedCreators, StockCreator),
         ld \in Pick("loaders", forged, ForgedLoaders, StockLoaders),
         pm \in Pick("pm", forged, ForgedPMs, StockPM),
         ap \in Pick("app", forged, ForgedApps, StockApp),
         pa \in Pick("paths", forged, ForgedPaths, StockPaths),
         fl \in Pick("files", forged, ForgedFss, StockFs),
         th \in Pick("throws", forged, ForgedThrows, {}) :
        /\ rt = [creator |-> cr, creatorClassloader |-> ld.creator,
                 sysClassloader |-> ld.sys, mPM |-> pm,
                 activityThread |-> ap.activityThread, application |-> ap.application,
                 appComponentFactory |-> ap.appComponentFactory,
                 paths |-> pa, throwing |-> th]
        /\ fs = fl
        /\ fs0 = fl

\* no jni:: helper has been called on its own yet
NoHelperCall ==
    [helper |-> "none", args |-> <<>>, n |-> 0, entryPending |-> FALSE,
     kind |-> "none", value |-> "none", jniResult |-> "none",
     pendingAfterOp |-> FALSE, throwableAfterOp |-> [raisedBy |-> "none"],
     carried |-> [raisedBy |-> "none"], throwable |-> [raisedBy |-> "none"],
     refs |-> <<>>]

InitLocals ==
    /\ pending = FALSE
    /\ suspicious = FALSE
    /\ results = <<>>
    /\ trace = <<>>
    /\ retval = FALSE
    /\ log = {}
    /\ returned = <<>>
    /\ jni = NoHelperCall

Init ==
    /\ InitEnv
    /\ InitLocals
    /\ pc = ProbeOrder[1]

(* -------------------------------- actions ------------------------------ *)

\* one `suspicious |= probe(...)` statement; inOrder: the statements follow
\* each other as written in checkSignatureBypass.  checkSignatureBypass has
\* no try block of its own: an exception that leaves a probe leaves it too.
Step(p, inOrder) ==
    \E o \in {RunProbe(p, rt, fs, pending, ub) : ub \in UBOutcomes} :
          /\ fs' = o.fs
          /\ pending' = o.pending
          /\ log' = log \cup o.log
          /\ IF o.kind = "abort"
             THEN /\ pc' = "aborted"
                  /\ UNCHANGED <<suspicious, results>>
             ELSE IF o.kind = "throw"
             THEN /\ pc' = "escaped"
                  /\ UNCHANGED <<suspicious, results>>
             ELSE /\ suspicious' = Accumulate(suspicious, o.suspicious)
                  /\ results' = results @@ (p :> o.suspicious)
                  /\ pc' = IF inOrder THEN NextStatement(p, suspicious') ELSE "any"
          /\ UNCHANGED <<rt, fs0, retval, returned, jni>>

Call(p) ==
    /\ pc = p
    /\ Step(p, TRUE)
    /\ trace' = Append(trace, p)

CallCheckCreator ==
    Call("checkCreator")

CallCheckField ==
    Call("checkField")

CallCheckCreators ==
    Call("checkCreators")

CallCheckPMProxy ==
    Call("checkPMProxy")

CallCheckAppComponentFactory ==
    Call("checkAppComponentFactory")

CallCheckApkPaths ==
    Call("checkApkPaths")

\* line 424
Return ==
    /\ pc = "return"
    /\ retval' = suspicious
    /\ returned' = Append(returned, suspicious)
    /\ pc' = "done"
    /\ UNCHANGED <<rt, fs, fs0, pending, suspicious, results, trace, log, jni>>

Next ==
    \/ CallCheckCreator
    \/ CallCheckField
    \/ CallCheckCreators
    \/ CallCheckPMProxy
    \/ CallCheckAppComponentFactory
    \/ CallCheckApkPaths
    \/ Return

Spec ==
    Init /\ [][Next]_vars

(* ------------------ the probes in an arbitrary order ------------------- *)

InitAnyOrder ==
    /\ InitEnv
    /\ InitLocals
    /\ pc = "any"

\* any probe that has not run yet is called next
CallAny(p) ==
    /\ pc = "any"
    /\ p \notin DOMAIN results
    /\ Step(p, FALSE)
    /\ UNCHANGED trace

ReturnAny ==
    /\ pc = "any"
    /\ DOMAIN results = Probes
    /\ retval' = suspicious
    /\ returned' = Append(returned, suspicious)
    /\ pc' = "done"
    /\ UNCHANGED <<rt, fs, fs0, pending, suspicious, results, trace, log, jni>>

NextAnyOrder ==
    \/ \E p \in Probes : CallAny(p)
    \/ ReturnAny

SpecAnyOrder ==
    InitAnyOrder /\ [][NextAnyOrder]_vars

(* ----------------------- consecutive calls ----------------------------- *)

\* checkSignatureBypass is called again after it returned: its locals start
\* afresh, the runtime and the filesystem are as the previous call left them
CallAgain ==
    /\ pc = "done"
    /\ Len(returned) < MaxCalls
    /\ pc' = ProbeOrder[1]
    /\ suspicious' = FALSE
    /\ results' = <<>>
    /\ trace' = <<>>
    /\ UNCHANGED <<rt, fs, fs0, pending, retval, log, returned, jni>>

NextTwice ==
    \/ CallCheckCreator
    \/ CallCheckField
    \/ CallCheckCreators
    \/ CallCheckPMProxy
    \/ CallCheckAppComponentFactory
    \/ CallCheckApkPaths
    \/ Return
    \/ CallAgain

SpecTwice ==
    Init /\ [][NextTwice]_vars

(* ------------------------- the call runs to its end -------------------- *)

\* the program counter moves on from a statement of checkSignatureBypass
Advance ==
    /\ pc \in Probes \cup {"return"}
    /\ pc' \in (Probes \cup {"return", "done", "aborted", "escaped"}) \ {pc}

\* checkSignatureBypass is sequential code on one thread: the statement the
\* program counter points at is executed, the thread is not suspended forever
SpecFair ==
    Init /\ [][Next]_vars /\ WF_pc(Advance)

(* ------------- the jni:: helpers, one JNI function at a time ----------- *)

\* the jthrowable an env-> function leaves pending when it fails
Throwable(fn) ==
    [raisedBy |-> fn]

NoThrowable ==
    [raisedBy |-> "none"]

\* env->ExceptionOccurred(): a local reference to the pending throwable
ExceptionOccurred_null(pendingThrowable) ==
    NoThrowable

ExceptionOccurred(pendingThrowable) ==
    pendingThrowable

\* the kinds of argument ArgsToJValues::setJValue is overloaded for
ArgKinds ==
    {"jint", "jobject", "nullptr", "std::string", "const char*", "const char* nullptr"}

ArgLists ==
    UNION {[1..n -> ArgKinds] : n \in 0..MaxArgs}

\* one env-> function called by a helper: whether JNI_CHECK_EXCEPTION follows
\* it, the role of the local reference it returns ("none": no reference),
\* and whether the helper puts that reference into a ScopedLocalRef
Op(fn, check, ref, scoped) ==
    [fn |-> fn, check |-> check, ref |-> ref, scoped |-> scoped]

\* ArgsToJValues: a std::string or a non-null const char* argument is
\* converted with NewStringUTF, unchecked, and the jstring is kept in values_
RECURSIVE ArgsToJValues(_)
ArgsToJValues(args) ==
    IF args = <<>> THEN <<>>
    ELSE (IF Head(args) \in {"std::string", "const char*"}
          THEN <<Op("NewStringUTF", FALSE, "argString", FALSE)>>
          ELSE <<>>)
         \o ArgsToJValues(Tail(args))

\* the env-> functions each helper calls, in order
HelperOps(helper, args) ==
    CASE helper = "FindClass" ->
            <<Op("FindClass", TRUE, "result", FALSE)>>
      [] helper = "GetMethodID" ->
            <<Op("GetMethodID", TRUE, "none", FALSE)>>
      [] helper = "GetStaticMethodID" ->
            <<Op("GetStaticMethodID", TRUE, "none", FALSE)>>
      [] helper = "GetFieldID" ->
            <<Op("GetFieldID", TRUE, "none", FALSE)>>
      [] helper = "GetStaticFieldID" ->
            <<Op("GetStaticFieldID", TRUE, "none", FALSE)>>
      [] helper = "CallMethod" ->
            <<Op("GetObjectClass", FALSE, "class", TRUE),
              Op("GetMethodID", TRUE, "none", FALSE)>>
            \o ArgsToJValues(args)
            \o <<Op("CallObjectMethod", TRUE, "result", FALSE)>>
      [] helper = "CallStaticMethod" ->
            <<Op("FindClass", TRUE, "class", TRUE),
              Op("GetStaticMethodID", TRUE, "none", FALSE)>>
            \o ArgsToJValues(args)
            \o <<Op("CallStaticObjectMethod", TRUE, "result", FALSE)>>
      [] helper = "NewObject" ->
            <<Op("FindClass", TRUE, "class", TRUE),
              Op("GetMethodID", TRUE, "none", FALSE)>>
            \o ArgsToJValues(args)
            \o <<Op("NewObjectA", TRUE, "result", FALSE)>>
      [] helper = "GetField" ->
            <<Op("GetObjectClass", FALSE, "class", TRUE),
              Op("GetFieldID", TRUE, "none", FALSE),
              Op("GetObjectField", TRUE, "result", FALSE)>>
      [] helper = "GetStaticField" ->
            <<Op("FindClass", TRUE, "class", TRUE),
              Op("GetStaticFieldID", TRUE, "none", FALSE),
              Op("GetStaticObjectField", TRUE, "result", FALSE)>>
      [] helper = "StringToJString" ->
            <<Op("NewStringUTF", FALSE, "result", FALSE)>>
      [] helper = "JStringToString" ->
            <<Op("GetStringUTFChars", FALSE, "none", FALSE)>>

\* GetObjectClass of a non-null object cannot fail, and GetStringUTFChars
\* either hands back the characters or does not return
CanRaise(fn) ==
    fn \notin {"GetObjectClass", "GetStringUTFChars"}

\* at which env-> function of a helper call an exception is raised (0: nowhere)
RaisePoints(ops) ==
    {0} \cup {i \in 1..Len(ops) : CanRaise(ops[i].fn)}

\* a local reference of the current frame and how often it was deleted
LocalRef(role) ==
    [role |-> role, deleted |-> 0]

\* ~ScopedLocalRef: DeleteLocalRef on each wrapped reference, on return and
\* during stack unwinding alike
ScopedLocalRefDtor(refs, scoped) ==
    [i \in 1..Len(refs) |->
        IF i \in scoped THEN [refs[i] EXCEPT !.deleted = @ + 1] ELSE refs[i]]

\* the helper's statements from the i-th env-> function on.  A function that
\* fails returns null and leaves its throwable pending unless one is pending
\* already; JNI_CHECK_EXCEPTION then captures the throwable and throws.
RECURSIVE RunOps(_, _, _, _)
RunOps(ops, i, raiseAt, st) ==
    IF i > Len(ops)
    THEN [st EXCEPT !.kind = "return", !.refs = ScopedLocalRefDtor(st.refs, st.scoped)]
    ELSE LET op        == ops[i]
             raised    == i = raiseAt
             pendAfter == st.pending \/ raised
             thrAfter  == IF st.pending THEN st.throwable
                          ELSE IF raised THEN Throwable(op.fn) ELSE NoThrowable
             made      == ~raised /\ op.ref # "none"
             refs1     == IF made THEN Append(st.refs, LocalRef(op.ref)) ELSE st.refs
             result    == IF raised THEN "null" ELSE op.fn
             chk       == IF op.check THEN JNI_CHECK_EXCEPTION(pendAfter)
                          ELSE [thrown |-> FALSE, pending |-> pendAfter]
         IN  IF chk.thrown
             THEN [kind |-> "throw",
                   pending |-> chk.pending,
                   throwable |-> IF chk.pending THEN thrAfter ELSE NoThrowable,
                   carried |-> ExceptionOccurred(thrAfter),
                   refs |-> ScopedLocalRefDtor(Append(refs1, LocalRef("throwable")),
                                               st.scoped),
                   scoped |-> st.scoped,
                   value |-> "none",
                   jniResult |-> result,
                   pendingAfterOp |-> pendAfter,
                   throwableAfterOp |-> thrAfter]
             ELSE RunOps(ops, i + 1, raiseAt,
                         [kind |-> "running",
                          pending |-> chk.pending,
                          throwable |-> thrAfter,
                          carried |-> NoThrowable,
                          refs |-> refs1,
                          scoped |-> IF made /\ op.scoped
                                     THEN st.scoped \cup {Len(refs1)} ELSE st.scoped,
                          value |-> result,
                          jniResult |-> result,
                          pendingAfterOp |-> pendAfter,
                          throwableAfterOp |-> thrAfter])

\* one call of a helper on an env whose exception state is (pend, thr)
RunHelper(helper, args, raiseAt, pend, thr) ==
    RunOps(HelperOps(helper, args), 1, raiseAt,
           [kind |-> "running", pending |-> pend, throwable |-> thr,
            carried |-> NoThrowable, refs |-> <<>>, scoped |-> {},
            value |-> "none", jniResult |-> "none",
            pendingAfterOp |-> pend, throwableAfterOp |-> thr])

InitJni ==
    /\ rt = StockRuntime
    /\ fs = StockFs
    /\ fs0 = StockFs
    /\ InitLocals
    /\ pc = "jni"

\* native code calls helper `helper` with arguments of the kinds `args`
CallHelper(helper, args) ==
    /\ pc = "jni"
    /\ jni.n < MaxHelperCalls
    /\ \E o \in {RunHelper(helper, args, k, pending, jni.throwable) :
                    k \in RaisePoints(HelperOps(helper, args))} :
          /\ pending' = o.pending
          /\ jni' = [helper |-> helper, args |-> args, n |-> jni.n + 1,
                     entryPending |-> pending, kind |-> o.kind, value |-> o.value,
                     jniResult |-> o.jniResult, pendingAfterOp |-> o.pendingAfterOp,
                     throwableAfterOp |-> o.throwableAfterOp, carried |-> o.carried,
                     throwable |-> o.throwable, refs |-> o.refs]
    /\ UNCHANGED <<rt, fs, fs0, pc, suspicious, results, trace, retval, log, returned>>

FindClass ==
    CallHelper("FindClass", <<>>)

GetMethodID ==
    CallHelper("GetMethodID", <<>>)

GetStaticMethodID ==
    CallHelper("GetStaticMethodID", <<>>)

GetFieldID ==
    CallHelper("GetFieldID", <<>>)

GetStaticFieldID ==
    CallHelper("GetStaticFieldID", <<>>)

CallMethod ==
    \E args \in ArgLists : CallHelper("CallMethod", args)

CallStaticMethod ==
    \E args \in ArgLists : CallHelper("CallStaticMethod", args)

NewObject ==
    \E args \in ArgLists : CallHelper("NewObject", args)

GetField ==
    CallHelper("GetField", <<>>)

GetStaticField ==
    CallHelper("GetStaticField", <<>>)

StringToJString ==
    CallHelper("StringToJString", <<>>)

JStringToStringCall ==
    CallHelper("JStringToString", <<>>)

NextJni ==
    \/ FindClass
    \/ GetMethodID
    \/ GetStaticMethodID
    \/ GetFieldID
    \/ GetStaticFieldID
    \/ CallMethod
    \/ CallStaticMethod
    \/ NewObject
    \/ GetField
    \/ GetStaticField
    \/ StringToJString
    \/ JStringToStringCall

SpecJni ==
    InitJni /\ [][NextJni]_vars

(* -------------------------------- claims ------------------------------- *)

\* C1: checkSignatureBypass returns true iff at least one of the six probes
\* returned true, and false exactly when all six returned false.
C1_ReturnsOrOfProbes ==
    pc = "done" =>
        /\ DOMAIN results = Probes
        /\ retval = (\E p \in Probes : results[p])

\* a call in which only checkPMProxy, the fourth probe, reported suspicious
C1_Witness ==
    /\ pc = "done"
    /\ retval
    /\ \A p \in Probes : results[p] = (p = "checkPMProxy")

\* C2: every call runs the six probes exactly once, in source order, and a
\* probe that reports suspicious never causes a later probe to be skipped.
C2_FixedOrderNoShortCircuit ==
    /\ pc \in Probes => trace = SubSeq(ProbeOrder, 1, IndexOf(pc) - 1)
    /\ pc \in {"return", "done"} => trace = ProbeOrder

\* the first probe reported suspicious and the call still ran to its end
C2_Witness ==
    /\ pc = "done"
    /\ results["checkCreator"]
    /\ Len(trace) = Len(ProbeOrder)

\* C3: a call leaves the permission bits of every APK file as they were.
C3_PermissionBitsUnchanged ==
    pc = "done" =>
        \A p \in PathStrings :
            fs0[p].exists =>
                (fs[p].st_mode % PermModulus) = (fs0[p].st_mode % PermModulus)

\* C4: whatever the order in which the probes run, each probe returns what it
\* returns when run alone from the initial state, and so does the call.
C4_OrderIndependent ==
    /\ \A p \in DOMAIN results :
          results[p] = RunProbe(p, rt, fs0, FALSE, "throw").suspicious
    /\ pc = "done" =>
          retval = (\E p \in Probes : RunProbe(p, rt, fs0, FALSE, "throw").suspicious)

\* checkApkPaths ran before the first four probes, changed a file's mode, and
\* another probe ran after it
C4_Witness ==
    /\ DOMAIN results = {"checkApkPaths", "checkAppComponentFactory"}
    /\ fs # fs0

\* the conditions of C5 on the path list: the five paths, plus the native path
\* when not empty, all equal, under /data/app/, named base.apk, stat-able,
\* mode 0644, owner 1000, and not chmod-able
ApkPathsAllGood ==
    LET native == IF {258, 260} \cap rt.throwing = {}
                  THEN JStringToString(rt.paths.sourceDir) ELSE EmptyString
        list   == {JStringToString(rt.paths[s]) : s \in PathSources}
                  \cup (IF native # EmptyString THEN {native} ELSE {})
        ok(p)  == /\ \A q \in list : q = p
                  /\ Len(p) >= Len(dataAppPrefix)
                  /\ SubSeq(p, 1, Len(dataAppPrefix)) = dataAppPrefix
                  /\ Len(p) >= Len(baseApkSuffix)
                  /\ SubSeq(p, Len(p) - Len(baseApkSuffix) + 1, Len(p)) = baseApkSuffix
                  /\ fs0[p].exists
                  /\ fs0[p].st_mode % 512 = 420
                  /\ fs0[p].st_uid = 1000
                  /\ ~fs0[p].chmodPermitted
    IN  \A p \in list : ok(p)

\* C5 (as stated): checkApkPaths returns false iff no introspection call
\* throws, those of getApkPath included, and every path of its list is good.
C5_ApkPathsFalseIffNoCallThrows ==
    "checkApkPaths" \in DOMAIN results =>
        ((results["checkApkPaths"] = FALSE)
         <=> /\ {274, 277, 280, 282, 285, 288, 289, 291, 299, 258, 260}
                    \cap rt.throwing = {}
             /\ ApkPathsAllGood)

\* C5 (amended): checkApkPaths returns false iff none of the calls it makes
\* itself throws and every path of its list is good; an exception inside
\* getApkPath is swallowed there and only leaves the native path out.
C5_ApkPathsFalseIff ==
    "checkApkPaths" \in DOMAIN results =>
        ((results["checkApkPaths"] = FALSE)
         <=> /\ {274, 277, 280, 282, 285, 288, 289, 291, 299} \cap rt.throwing = {}
             /\ ApkPathsAllGood)

\* getApkPath threw, the five remaining paths are good: not suspicious
C5_Witness ==
    /\ "checkApkPaths" \in DOMAIN results
    /\ results["checkApkPaths"] = FALSE
    /\ rt.throwing \cap {258, 260} # {}

\* C6: checkCreator returns false iff no call throws and the class name of
\* CREATOR is exactly "android.content.pm.PackageInfo$1"; any other name, also
\* one that begins with "android.content.pm.PackageInfo$", gives true.
C6_CreatorFalseIff ==
    "checkCreator" \in DOMAIN results =>
        ((results["checkCreator"] = FALSE)
         <=> /\ {33, 34, 35} \cap rt.throwing = {}
             /\ IF rt.creator.null THEN FALSE
                ELSE rt.creator.className = JStr(expectedCreatorName))

\* another inner class of PackageInfo passes the prefix test and is reported
C6_Witness ==
    /\ "checkCreator" \in DOMAIN results
    /\ results["checkCreator"]
    /\ rt.throwing = {}
    /\ ~rt.creator.null
    /\ rt.creator.className = JStr(OtherInnerName)

\* whether checkCreators reached its comparison of the two loaders
LoadersCompared ==
    /\ "checkCreators" \in DOMAIN results
    /\ log \cap {"Class loaders are same - suspicious",
                 "Class loaders are different - good"} # {}

\* C7 (as stated): the comparison reports suspicious exactly when the two
\* loaders are the same loader.
C7_SuspiciousIffSameLoader ==
    LoadersCompared =>
        (("Class loaders are same - suspicious" \in log)
         <=> rt.creatorClassloader.id = rt.sysClassloader.id)

\* C7 (amended): the comparison reports suspicious exactly when the classes of
\* the two loaders have the same name; loaders whose classes have different
\* names are reported as good.
C7_SuspiciousIffSameLoaderClassName ==
    /\ LoadersCompared =>
          /\ ("Class loaders are same - suspicious" \in log)
             <=> rt.creatorClassloader.className = rt.sysClassloader.className
          /\ ("Class loaders are different - good" \in log)
             <=> rt.creatorClassloader.className # rt.sysClassloader.className
    /\ (/\ "checkCreators" \in DOMAIN results
        /\ {100, 102, 114, 115, 117, 119, 120, 122, 123} \cap rt.throwing = {}
        /\ ~rt.creator.null
        /\ ~rt.creatorClassloader.null
        /\ ~rt.sysClassloader.null)
       => LoadersCompared

\* two distinct loaders of the same class are reported as the same
C7_Witness ==
    /\ LoadersCompared
    /\ rt.creatorClassloader = AppLoader
    /\ rt.sysClassloader = SystemLoader
    /\ "Class loaders are same - suspicious" \in log

\* C8: checkPMProxy returns false iff no call throws and the class name of the
\* object in mPM is exactly "android.content.pm.IPackageManager$Stub$Proxy".
C8_PMProxyFalseIff ==
    "checkPMProxy" \in DOMAIN results =>
        ((results["checkPMProxy"] = FALSE)
         <=> /\ {155, 157, 158, 159, 161, 163, 165, 166} \cap rt.throwing = {}
             /\ IF rt.mPM.null THEN FALSE
                ELSE rt.mPM.className = JStr(expectedPMName))

\* a proxy whose class name only begins with the expected name is reported
C8_Witness ==
    /\ "checkPMProxy" \in DOMAIN results
    /\ results["checkPMProxy"]
    /\ rt.throwing = {}
    /\ ~rt.mPM.null
    /\ rt.mPM.className = JStr(LongerPMName)

\* C9: checkField returns true iff the class of CREATOR declares at least one
\* field or a call throws; with no field and no exception it returns false.
C9_FieldTrueIff ==
    "checkField" \in DOMAIN results =>
        (results["checkField"]
         <=> \/ {65, 66, 67} \cap rt.throwing # {}
             \/ IF rt.creator.null THEN TRUE ELSE rt.creator.fieldCount > 0)

\* exactly one declared field, no exception: reported
C9_Witness ==
    /\ "checkField" \in DOMAIN results
    /\ results["checkField"]
    /\ rt.throwing = {}
    /\ ~rt.creator.null
    /\ rt.creator.fieldCount = 1

\* whether checkAppComponentFactory gets an application from getApplication
ApplicationObtained ==
    /\ {190, 191} \cap rt.throwing = {}
    /\ ~rt.activityThread.null
    /\ ~rt.application.null

CheckedHelpers ==
    {"FindClass", "GetMethodID", "GetStaticMethodID", "GetFieldID", "GetStaticFieldID",
     "GetField", "GetStaticField", "CallMethod", "CallStaticMethod", "NewObject"}

\* C11: when a Java exception is pending right after the JNI operation of a
\* checked helper, the helper throws a JNIException that carries the pending
\* throwable, with the pending exception cleared, and returns no value; when
\* none is pending it returns the result of the JNI operation unchanged.
C11_ExceptionPropagation ==
    jni.helper \in CheckedHelpers =>
        IF jni.pendingAfterOp
        THEN /\ jni.kind = "throw"
             /\ jni.value = "none"
             /\ jni.carried = jni.throwableAfterOp
             /\ jni.carried # NoThrowable
             /\ ~pending
             /\ jni.throwable = NoThrowable
        ELSE /\ jni.kind = "return"
             /\ jni.value = jni.jniResult
             /\ jni.value # "null"

\* CallObjectMethod raised inside CallMethod: the helper threw, the exception
\* carries what CallObjectMethod raised and nothing is pending any more
C11_Witness ==
    /\ jni.helper = "CallMethod"
    /\ ~jni.entryPending
    /\ jni.kind = "throw"
    /\ jni.carried = Throwable("CallObjectMethod")
    /\ ~pending

\* the helpers of C12: they create local references they do not hand back
RefHelpers ==
    {"CallMethod", "CallStaticMethod", "NewObject", "GetField", "GetStaticField"}

\* C12: every local reference a helper creates for itself (the class it looks
\* up, the jstring made from a string argument) is deleted exactly once by
\* the time the helper returns or throws.
C12_InternalRefsDeletedOnce ==
    jni.helper \in RefHelpers =>
        \A i \in 1..Len(jni.refs) :
            jni.refs[i].role \in {"class", "argString"} => jni.refs[i].deleted = 1

\* C13: a function of namespace jni entered with no Java exception pending
\* leaves with no Java exception pending, whether it returns or throws.
C13_NoPendingOnExit ==
    (jni.helper # "none" /\ ~jni.entryPending) => ~pending

\* the probes whose catch block reports suspicious (lines 52-55, 88-91,
\* 141-144, 180-183, 401-404)
FailClosedProbes ==
    {"checkCreator", "checkField", "checkCreators", "checkPMProxy", "checkApkPaths"}

\* whether a jni:: helper call made by probe p itself throws, given that p
\* returns: a call site that raises, a failed raw call whose exception the
\* next helper finds pending, or a helper handed a null object
DirectHelperThrows(p) ==
    CASE p = "checkCreator" ->
            {33, 34, 35} \cap rt.throwing # {} \/ rt.creator.null
      [] p = "checkField" ->
            \/ {65, 66, 67} \cap rt.throwing # {}
            \/ rt.creator.null
            \/ /\ ~rt.creator.null
               /\ rt.creator.fieldCount > 0
               /\ {77, 78} \cap rt.throwing # {}
      [] p = "checkCreators" ->
            \/ {100, 102, 114, 115, 117, 119, 120, 122, 123} \cap rt.throwing # {}
            \/ rt.creator.null
            \/ rt.creatorClassloader.null
            \/ rt.sysClassloader.null
      [] p = "checkPMProxy" ->
            \/ {155, 157, 158, 159, 161, 163, 165, 166} \cap rt.throwing # {}
            \/ rt.mPM.null
      [] p = "checkApkPaths" ->
            {274, 277, 280, 282, 285, 288, 289, 291, 299} \cap rt.throwing # {}

\* C14: in checkCreator, checkField, checkCreators, checkPMProxy and
\* checkApkPaths, when a jni:: helper call made by the probe itself throws a
\* JNIException, the probe returns true.
C14_FailClosed ==
    \A p \in FailClosedProbes :
        (p \in DOMAIN results /\ DirectHelperThrows(p)) => results[p]

\* on an otherwise stock device getPackageInfo throws inside checkApkPaths:
\* the catch block alone makes the probe report suspicious
C14_Witness ==
    /\ "checkApkPaths" \in DOMAIN results
    /\ results["checkApkPaths"]
    /\ rt.throwing = {280}
    /\ "Error while checking APK paths" \in log
    /\ \A p \in Probes \ {"checkApkPaths"} : ~results[p]

\* the probes called so far, whether or not they returned
Called ==
    {trace[i] : i \in 1..Len(trace)}

\* C15: checkAppComponentFactory returns false when getApplication returns
\* null (currentActivityThread or the read of mInitialApplication threw or
\* yielded null) and also when the appComponentFactory field is null; an
\* exception raised inside getApplication never reaches the probe's own
\* catch block.  getApplication returns whenever JNI is not handed a null
\* activity thread.
C15_FalseWithoutApplication ==
    /\ "checkAppComponentFactory" \in DOMAIN results =>
          /\ ~ApplicationObtained =>
                /\ ~results["checkAppComponentFactory"]
                /\ "Error while checking AppComponentFactory" \notin log
          /\ (/\ ApplicationObtained
              /\ {229, 231} \cap rt.throwing = {}
              /\ rt.appComponentFactory.null)
             => ~results["checkAppComponentFactory"]
    /\ (/\ "checkAppComponentFactory" \in Called
        /\ ~ApplicationObtained
        /\ ~rt.activityThread.null)
       => "checkAppComponentFactory" \in DOMAIN results

\* the read of mInitialApplication threw: swallowed inside getApplication,
\* the probe reports nothing
C15_Witness ==
    /\ "checkAppComponentFactory" \in DOMAIN results
    /\ ~results["checkAppComponentFactory"]
    /\ rt.throwing = {191}
    /\ "Error while checking AppComponentFactory" \notin log

\* C16: when the class loader of PackageInfo.CREATOR's class or the system
\* class loader is null, checkCreators reaches its 'One of the class loaders
\* is null' outcome and returns true.
C16_NullLoaderReported ==
    (/\ "checkCreators" \in Called
     /\ ~rt.creator.null
     /\ {100, 102, 114, 115, 117, 119, 120, 122, 123} \cap rt.throwing = {}
     /\ (rt.creatorClassloader.null \/ rt.sysClassloader.null))
    => /\ "checkCreators" \in DOMAIN results
       /\ results["checkCreators"]
       /\ "One of the class loaders is null" \in log

\* whether the stat loop of checkApkPaths inspects `path`, given that the
\* probe returns: the path list is built and holds the path
Inspected(path) ==
    /\ {274, 277, 280, 282, 285, 288, 289, 291, 299} \cap rt.throwing = {}
    /\ \E s \in PathSources : JStringToString(rt.paths[s]) = path

\* how often the path list holds `path`
Occurrences(path) ==
    Cardinality({s \in PathSources : JStringToString(rt.paths[s]) = path})
    + (IF {258, 260} \cap rt.throwing = {} /\ JStringToString(rt.paths.sourceDir) = path
       THEN 1 ELSE 0)

\* C17: whenever chmod(path, 0777) succeeds for a path that checkApkPaths
\* inspects, the probe returns true and on return the permission bits of that
\* path are 0644, also when the path occurs several times in the list.
C17_ChmodReportedAndRestored ==
    "checkApkPaths" \in DOMAIN results =>
        \A path \in PathStrings :
            (Inspected(path) /\ fs0[path].exists /\ fs0[path].chmodPermitted)
            => /\ results["checkApkPaths"]
               /\ fs[path].st_mode % 512 = 420

\* a file of mode 0644 and owner 1000 that the process may chmod, listed six
\* times: reported, and back at 0644 after six chmod(0777)
C17_Witness ==
    /\ "checkApkPaths" \in DOMAIN results
    /\ results["checkApkPaths"]
    /\ Occurrences(GoodPath) = 6
    /\ fs0[GoodPath].exists
    /\ fs0[GoodPath].chmodPermitted
    /\ fs0[GoodPath].st_mode % 512 = 420
    /\ fs0[GoodPath].st_uid = 1000
    /\ fs[GoodPath].st_mode % 512 = 420
    /\ "permissions could be changed - suspicious" \in log

\* C18: consecutive calls of checkSignatureBypass, with no change to the
\* runtime or the filesystem other than those the calls make themselves,
\* return the same boolean.
C18_ConsecutiveCallsAgree ==
    \A i, j \in 1..Len(returned) : returned[i] = returned[j]

\* the first call changed the mode of an APK file (0600 to 0644) and the
\* second call, which finds the file changed, returns the same value
C18_Witness ==
    /\ Len(returned) = 2
    /\ returned[2]
    /\ fs0[GoodPath].exists
    /\ fs0[GoodPath].st_mode % 512 = 384
    /\ fs[GoodPath].st_mode % 512 = 420

\* the path list checkApkPaths builds in the current runtime
CurrentPathList ==
    PathList(rt, getApkPath(rt, FALSE, "throw").path)

\* C19: every call of checkSignatureBypass in which each JNI call returns
\* terminates and returns a boolean; no exception leaves a probe; the field
\* loop makes one pass per declared field and the path loops at most six.
C19_TerminatesWithoutEscape ==
    /\ <>(pc \in {"done", "aborted"})
    /\ [](pc = "done" => retval \in BOOLEAN /\ DOMAIN results = Probes)
    /\ [](pc # "escaped")
    /\ [](~rt.creator.null =>
            Len(FieldLoopCalls(rt.creator.fieldCount)) = 2 * rt.creator.fieldCount)
    /\ [](Len(CurrentPathList) <= 6)

\* a call in which checkPMProxy caught a JNIException ran to its return
C19_Witness ==
    /\ pc = "done"
    /\ rt.throwing = {163}
    /\ "Error while checking PM proxy" \in log
    /\ retval

====
